---------------------------- MODULE Spec2Model ----------------------------
(***************************************************************************)
(* beerwater (src/main.rs): a dosing plan of mineral salts by randomized   *)
(* local search.  The program reads ion_contributions.txt (a header line   *)
(* naming the ions, then one row per salt), reads target.txt (one          *)
(* constraint per line), draws random salt quantities, nudges them for a   *)
(* fixed number of iterations keeping the best, and prints a report.       *)
(*                                                                         *)
(* Numbers.  Every f32 of the program is a fixed-point integer here.       *)
(* Concentrations, contributions, targets and ratios count hundredths      *)
(* (1.0 is One = 100, the guard 0.01 is 1).  Salt quantities count steps   *)
(* of eps; QOne steps make 1 g/l.  An error value is a sum of squares of   *)
(* hundredths.  Vectors are 1-based: the Rust index k is k + 1 here.       *)
(***************************************************************************)
EXTENDS Integers, Sequences, FiniteSets, TLC

VARIABLES
    pc,                   \* where main() is
    file_eof,             \* the ion contribution line iterator is exhausted
    line,                 \* line_parts of the record handed to a processor last
    messages,             \* kinds of loader messages printed so far
    ions,                 \* Vec<String>
    maybe_hco3_index,     \* index of "HCO3-" in ions, 0 for None
    salts,                \* Vec<String>
    contributions,        \* Vec<Vec<f32>>, one row per salt
    constraints,          \* Vec<Constraint>
    best_quantities, try_quantities,
    best_concentrations, try_concentrations,
    best_err, try_err,
    i,                    \* the loop variable of the search loop
    divisors,             \* denominators the last call of err divided by
    logged,               \* the errors printed by "ERR @i: best_err"
    report                \* what the report printed, <<>> before it

vars == <<pc, file_eof, line, messages, ions, maybe_hco3_index, salts,
          contributions, constraints, best_quantities, try_quantities,
          best_concentrations, try_concentrations, best_err, try_err, i,
          divisors, logged, report>>

-----------------------------------------------------------------------------
(* Bounds of the model *)

\* Salt rows read from ion_contributions.txt.
MaxSalts == 2
\* Records of target.txt that add a constraint.
MaxConstraints == 2
\* Iterations of the search loop; stands for the 500000 of main.rs:383.
MaxIter == 2
\* Constraints in a list handed to err or to the report on its own.
MaxListed == 2
\* The progress line is printed every LogEvery iterations; stands for the
\* 10000 of main.rs:395.
LogEvery == 1
\* Steps of eps in 1 g/l: the initial quantities are drawn from 0 .. QOne-1.
QOne == 2

(* Program constants, in the model's units *)

\* 1.0 in hundredths; also the tolerance of an Exact mark.
One == 100
\* The tolerance 0.1 of a Ratio mark.
RatioTolerance == 10
\* The denominator guard 0.01.
RatioGuard == 1
\* The step size: quantities count multiples of it.
eps == 1
\* Litres of water.
water_quantity == 25

\* The penalty 10000.0 of a guarded ratio, as a square of hundredths.
RatioPenalty == 10000 * One * One

-----------------------------------------------------------------------------
(* Fixed-point arithmetic *)

Abs(x) == IF x < 0 THEN -x ELSE x

Max(x, y) == IF x < y THEN y ELSE x

\* contribution (hundredths per g/l) times quantity (steps of eps).
MulQ(c, q) == (c * q) \div QOne

\* The quotient of two concentrations, in hundredths.
DivF(a, b) == (a * One) \div b

Zeros(n) == [k \in 1..n |-> 0]

\* str::parse::<f32>() on the words the input files are drawn from.
Numeral ==
    ("0" :> 0) @@ ("0.02" :> 2) @@ ("0.04" :> 4) @@ ("2" :> 200) @@ ("-1" :> -100)

ParseF32(word) ==
    IF word \in DOMAIN Numeral
    THEN [ok |-> TRUE, value |-> Numeral[word]]
    ELSE [ok |-> FALSE, value |-> 0]

\* ions.iter().position(|v| v == name): the first index, 0 for None.
Position(names, name) ==
    IF \E k \in 1..Len(names) : names[k] = name
    THEN CHOOSE k \in 1..Len(names) :
            /\ names[k] = name
            /\ \A j \in 1..(k-1) : names[j] # name
    ELSE 0


-----------------------------------------------------------------------------
(* The core: nudge, alkalinity, err, conc *)

\* What Normal::new(mean, sd) is sampled from: a value below the mean, zero
\* when mean = -sd, and a value above zero.
Normal(mean, sd) == {mean - sd, mean + sd, mean + 2 * sd}

\* nudge without its clamp at 0.
nudgeUnclamped(e, qin, qout, samples) ==
    [s \in 1..Len(qout) |->
        IF s <= Len(qin) THEN qin[s] + samples[s] ELSE qout[s]]

\* nudge with the samples it drew, one per salt; returns qout.
nudge(e, qin, qout, samples) ==
    [s \in 1..Len(qout) |->
        IF s <= Len(qin) THEN Max(0, qin[s] + samples[s]) ELSE qout[s]]

alkalinity(concentrations, i_hco3) == (concentrations[i_hco3] * 50) \div 61

\* The guard taking the denominator 0.01 itself for too small.
DenominatorAtMostGuard(ion2_conc) == ion2_conc <= RatioGuard

\* The guard of the ratio's denominator.
DenominatorTooSmall(ion2_conc) == ion2_conc < RatioGuard

\* A constraint is a tuple as the enum's variant: <<"Exact", ion_index, target>>,
\* <<"Range", ion_index, min, max>>, <<"Ratio", ion1_index, ion2_index, target_ratio>>.
ErrorContribution(constraint, concentrations) ==
    CASE constraint[1] = "Exact" ->
            LET diff == concentrations[constraint[2]] - constraint[3]
            IN  diff * diff
      [] constraint[1] = "Range" ->
            LET conc_ == concentrations[constraint[2]]
                min == constraint[3]
                max == constraint[4]
            IN  IF conc_ < min THEN (conc_ - min) * (conc_ - min)
                ELSE IF conc_ > max THEN (conc_ - max) * (conc_ - max)
                ELSE 0
      [] constraint[1] = "Ratio" ->
            LET ion1_conc == concentrations[constraint[2]]
                ion2_conc == concentrations[constraint[3]]
            IN  IF DenominatorTooSmall(ion2_conc) THEN RatioPenalty
                ELSE LET actual_ratio == DivF(ion1_conc, ion2_conc)
                         diff == actual_ratio - constraint[4]
                     IN  diff * diff

RECURSIVE ErrLoop(_, _, _, _)
ErrLoop(cs, concentrations, k, sum) ==
    IF k > Len(cs) THEN sum
    ELSE ErrLoop(cs, concentrations, k + 1,
                 sum + ErrorContribution(cs[k], concentrations))

err(cs, concentrations) == ErrLoop(cs, concentrations, 1, 0)

\* The denominators err divides by on these arguments.
ErrDivisors(cs, concentrations) ==
    {concentrations[cs[k][3]] :
        k \in {j \in 1..Len(cs) :
                 /\ cs[j][1] = "Ratio"
                 /\ ~DenominatorTooSmall(concentrations[cs[j][3]])}}

RECURSIVE ConcInner(_, _, _, _, _, _)
ConcInner(contribs, quantities, ion, s, n, acc) ==
    IF s > n THEN acc
    ELSE ConcInner(contribs, quantities, ion, s + 1, n,
                   acc + MulQ(contribs[s][ion], quantities[s]))

RECURSIVE ConcOuter(_, _, _, _, _)
ConcOuter(contribs, quantities, concentrations, ion, n) ==
    IF ion > n THEN [vec |-> concentrations, panic |-> FALSE]
    ELSE IF ion > Len(concentrations)
         THEN [vec |-> concentrations, panic |-> TRUE]   \* index out of bounds
    ELSE ConcOuter(contribs, quantities,
                   [concentrations EXCEPT
                        ![ion] = ConcInner(contribs, quantities, ion, 1, n, 0)],
                   ion + 1, n)

\* conc writes into concentrations; vec is the buffer as it leaves it, panic
\* whether an index ran past the buffer.
conc(contribs, quantities, concentrations) ==
    ConcOuter(contribs, quantities, concentrations, 1, Len(quantities))

\* The comparison taking a tie for an improvement.
BetterOrTie(t_err, b_err) == t_err <= b_err

\* The comparison that lets a trial replace the best.
Better(t_err, b_err) == t_err < b_err

\* The best triple with the copy of the concentrations forgotten.
AcceptedWithoutConcentrations(t_err, t_concentrations, t_quantities) ==
    [err |-> t_err, concentrations |-> best_concentrations,
     quantities |-> t_quantities]

\* The best triple after a better trial: all three are taken from the trial.
Accepted(t_err, t_concentrations, t_quantities) ==
    [err |-> t_err, concentrations |-> t_concentrations,
     quantities |-> t_quantities]

\* The range one iteration short.
LoopRangeShort == 1..(MaxIter - 1)

\* The range of the search loop's variable.
LoopRange == 1..MaxIter

\* f32::INFINITY, the ratio the report shows over a guarded denominator.
Infinity == 1000000000

\* The marks of the report.
ExactMark(achieved, target) ==
    IF Abs(achieved - target) < One THEN "pass" ELSE "fail"

RangeMark(achieved, min, max) ==
    IF achieved >= min /\ achieved <= max THEN "pass" ELSE "fail"

\* The achieved ratio with the guard of err, which divides by 0.01 itself.
AchievedRatioGuardedAsErr(ion1_conc, ion2_conc) ==
    IF DenominatorTooSmall(ion2_conc) THEN Infinity ELSE DivF(ion1_conc, ion2_conc)

AchievedRatio(ion1_conc, ion2_conc) ==
    IF ion2_conc > RatioGuard THEN DivF(ion1_conc, ion2_conc) ELSE Infinity

RatioMark(achieved_ratio, target_ratio) ==
    IF Abs(achieved_ratio - target_ratio) < RatioTolerance THEN "pass" ELSE "fail"

Mark(constraint, concentrations) ==
    CASE constraint[1] = "Exact" ->
            ExactMark(concentrations[constraint[2]], constraint[3])
      [] constraint[1] = "Range" ->
            RangeMark(concentrations[constraint[2]], constraint[3], constraint[4])
      [] constraint[1] = "Ratio" ->
            RatioMark(AchievedRatio(concentrations[constraint[2]],
                                    concentrations[constraint[3]]),
                      constraint[4])

-----------------------------------------------------------------------------
(* The input files, as the records (the words of the non-empty lines) they hold *)

IonWords == {"Ca", "HCO3-"}

\* A name no header holds.
UnknownIonWord == "Zn"

\* First records of ion_contributions.txt.
IonHeaders == {<<"Ca">>, <<"HCO3-", "Ca">>}

SaltWords == {"CaCl2"}

ContributionWords == {"0", "0.02", "-1", "x"}

\* Salt rows: a name and zero to three fields.
SaltRecords ==
    LET F == ContributionWords
    IN  {<<n>> : n \in SaltWords}
        \cup {<<n, a>> : n \in SaltWords, a \in F}
        \cup {<<n, a, b>> : n \in SaltWords, a \in F, b \in F}
        \cup {<<n, a, b, c>> : n \in SaltWords, a \in {"0.02"}, b \in F, c \in F}

\* Records of target.txt: the four documented shapes over known and unknown
\* ions and over good and bad numbers, and records of other shapes.
TargetRecords ==
    LET K == {"Ca", UnknownIonWord}
        H == {"HCO3-", UnknownIonWord}
    IN  {<<a, x>> : a \in K, x \in {"0.02", "-1", "x", "-", ":"}}
        \cup {<<a, x, "-", y>> : a \in H, x \in {"0.02", "-1", "x"},
                                 y \in {"0.04", "-1", "x"}}
        \cup {<<a, "0.04", "-", "0.02">> : a \in H}
        \cup {<<a, "*">> : a \in K}
        \cup {<<a, ":", b, x>> : a \in K, b \in H, x \in {"2", "-1", "x"}}
        \cup {<<a>> : a \in K}
        \cup {<<a, "*", x>> : a \in K, x \in {"2", "x"}}
        \cup {<<a, x, y>> : a \in K, x \in {"2"}, y \in {"2", "-"}}
        \cup {<<a, x, ":", y>> : a \in K, x \in {"2"}, y \in {"2"}}
        \cup {<<a, ":", b>> : a \in K, b \in H}
        \cup {<<a, x, "-", y, "2">> : a \in H, x \in {"0.02"}, y \in {"0.04"}}

-----------------------------------------------------------------------------
(* The loaders *)

\* What process_data_file_or_exit does with the processor's answer to a record.
LineOutcome(result) ==
    CASE result = "None" -> [next |-> "continue", printed |-> {}]
      [] result = "Ok"   -> [next |-> "return",   printed |-> {}]
      [] result = "Err"  -> [next |-> "exit",     printed |-> {"record_error"}]

\* ... and with its answer to the end of the file.
EofOutcome(result) ==
    CASE result = "None" -> [next |-> "return", printed |-> {"unexpected_end"}]
      [] result = "Ok"   -> [next |-> "return", printed |-> {}]
      [] result = "Err"  -> [next |-> "exit",   printed |-> {"record_error"}]

\* The processor of the header: every word is an ion.
IonsProcessor(words, ions_, hco3) ==
    [result |-> "Ok",
     ions |-> ions_ \o words,
     maybe_hco3_index |->
        IF \E k \in 1..Len(words) : words[k] = "HCO3-"
        THEN CHOOSE k \in 1..Len(words) :
                /\ words[k] = "HCO3-"
                /\ \A j \in (k+1)..Len(words) : words[j] # "HCO3-"
        ELSE hco3]

IonsProcessorAtEof == "None"

\* A numeric field is taken when it parses and is not below zero.
FieldError(word) ==
    LET p == ParseF32(word) IN IF p.ok THEN p.value < 0 ELSE TRUE

\* The processor of a salt row.
SaltsProcessor(words, ions_, salts_, contribs) ==
    IF Len(words) # Len(ions_) + 1
    THEN [result |-> "Err", salts |-> salts_, contributions |-> contribs]
    ELSE IF \E k \in 2..Len(words) : FieldError(words[k])
    THEN [result |-> "Err", salts |-> Append(salts_, words[1]),
          contributions |-> contribs]
    ELSE [result |-> "None", salts |-> Append(salts_, words[1]),
          contributions |->
             Append(contribs, [k \in 1..Len(ions_) |-> ParseF32(words[k+1]).value])]

SaltsProcessorAtEof == "Ok"

\* The processor of a target record.
TargetProcessor(words, ions_, cs) ==
    LET Err_ == [result |-> "Err", constraints |-> cs]
        Add(c) == [result |-> "None", constraints |-> Append(cs, c)]
    IN
    IF Len(words) < 2 THEN Err_
    ELSE IF Len(words) = 4 /\ words[2] = ":"
    THEN LET ion1_index == Position(ions_, words[1])
             ion2_index == Position(ions_, words[3])
         IN  IF ion1_index = 0 THEN Err_
             ELSE IF ion2_index = 0 THEN Err_
             ELSE IF FieldError(words[4]) THEN Err_
             ELSE Add(<<"Ratio", ion1_index, ion2_index, ParseF32(words[4]).value>>)
    ELSE LET ion_index == Position(ions_, words[1])
         IN  IF ion_index = 0 THEN Err_
             ELSE IF words[2] = "*" THEN [result |-> "None", constraints |-> cs]
             ELSE IF Len(words) = 4 /\ words[3] = "-"
             THEN IF FieldError(words[2]) THEN Err_
                  ELSE IF FieldError(words[4]) THEN Err_
                  ELSE IF ParseF32(words[2]).value > ParseF32(words[4]).value THEN Err_
                  ELSE Add(<<"Range", ion_index, ParseF32(words[2]).value,
                             ParseF32(words[4]).value>>)
             ELSE IF Len(words) = 2
             THEN IF FieldError(words[2]) THEN Err_
                  ELSE Add(<<"Exact", ion_index, ParseF32(words[2]).value>>)
             ELSE Err_

TargetProcessorAtEof == "Ok"

-----------------------------------------------------------------------------
(* main *)

loader_vars == <<file_eof, line, messages, ions, maybe_hco3_index, salts,
                 contributions, constraints>>

search_vars == <<best_quantities, try_quantities, best_concentrations,
                 try_concentrations, best_err, try_err, i, divisors, logged>>

Init ==
    /\ pc = "open_ions"
    /\ file_eof = FALSE
    /\ line = <<>>
    /\ messages = {}
    /\ ions = <<>>
    /\ maybe_hco3_index = 0
    /\ salts = <<>>
    /\ contributions = <<>>
    /\ constraints = <<>>
    /\ best_quantities = <<>>
    /\ try_quantities = <<>>
    /\ best_concentrations = <<>>
    /\ try_concentrations = <<>>
    /\ best_err = 0
    /\ try_err = 0
    /\ i = 0
    /\ divisors = {}
    /\ logged = <<>>
    /\ report = <<>>

\* file_lines_or_exit on ion_contributions.txt.
OpenIonsFile ==
    /\ pc = "open_ions"
    /\ \E opened \in BOOLEAN :
         IF opened
         THEN pc' = "read_header" /\ UNCHANGED messages
         ELSE pc' = "exited" /\ messages' = messages \cup {"open_error"}
    /\ UNCHANGED <<file_eof, line, ions, maybe_hco3_index, salts, contributions,
                   constraints, report>>
    /\ UNCHANGED search_vars

\* A line of either file cannot be read.
ReadError ==
    /\ pc \in {"read_header", "read_salts", "read_targets"}
    /\ ~file_eof
    /\ pc' = "exited"
    /\ messages' = messages \cup {"read_error"}
    /\ UNCHANGED <<file_eof, line, ions, maybe_hco3_index, salts, contributions,
                   constraints, report>>
    /\ UNCHANGED search_vars

\* The first call of process_data_file_or_exit meets a record.
HeaderLine ==
    /\ pc = "read_header"
    /\ \E words \in IonHeaders :
         LET r == IonsProcessor(words, ions, maybe_hco3_index)
             o == LineOutcome(r.result)
         IN  /\ line' = words
             /\ ions' = r.ions
             /\ maybe_hco3_index' = r.maybe_hco3_index
             /\ messages' = messages \cup o.printed
             /\ pc' = CASE o.next = "continue" -> "read_header"
                        [] o.next = "return" -> "read_salts"
                        [] o.next = "exit" -> "exited"
    /\ UNCHANGED <<file_eof, salts, contributions, constraints, report>>
    /\ UNCHANGED search_vars

\* The first call meets the end of the file.
HeaderEof ==
    /\ pc = "read_header"
    /\ LET o == EofOutcome(IonsProcessorAtEof)
       IN  /\ messages' = messages \cup o.printed
           /\ pc' = IF o.next = "exit" THEN "exited" ELSE "read_salts"
    /\ file_eof' = TRUE
    /\ line' = <<>>
    /\ UNCHANGED <<ions, maybe_hco3_index, salts, contributions, constraints, report>>
    /\ UNCHANGED search_vars

\* The second call meets a record.
SaltLine ==
    /\ pc = "read_salts"
    /\ ~file_eof
    /\ Len(salts) < MaxSalts
    /\ \E words \in SaltRecords :
         LET r == SaltsProcessor(words, ions, salts, contributions)
             o == LineOutcome(r.result)
         IN  /\ line' = words
             /\ salts' = r.salts
             /\ contributions' = r.contributions
             /\ messages' = messages \cup o.printed
             /\ pc' = CASE o.next = "continue" -> "read_salts"
                        [] o.next = "return" -> "open_targets"
                        [] o.next = "exit" -> "exited"
    /\ UNCHANGED <<file_eof, ions, maybe_hco3_index, constraints, report>>
    /\ UNCHANGED search_vars

\* The second call meets the end of the file.
SaltsEof ==
    /\ pc = "read_salts"
    /\ LET o == EofOutcome(SaltsProcessorAtEof)
       IN  /\ messages' = messages \cup o.printed
           /\ pc' = IF o.next = "exit" THEN "exited" ELSE "open_targets"
    /\ file_eof' = TRUE
    /\ line' = <<>>
    /\ UNCHANGED <<ions, maybe_hco3_index, salts, contributions, constraints, report>>
    /\ UNCHANGED search_vars

\* file_lines_or_exit on target.txt.
OpenTargetFile ==
    /\ pc = "open_targets"
    /\ \E opened \in BOOLEAN :
         IF opened
         THEN pc' = "read_targets" /\ UNCHANGED messages
         ELSE pc' = "exited" /\ messages' = messages \cup {"open_error"}
    /\ file_eof' = FALSE
    /\ UNCHANGED <<line, ions, maybe_hco3_index, salts, contributions,
                   constraints, report>>
    /\ UNCHANGED search_vars

\* The third call meets a record.
TargetLine ==
    /\ pc = "read_targets"
    /\ Len(constraints) < MaxConstraints
    /\ \E words \in TargetRecords :
         LET r == TargetProcessor(words, ions, constraints)
             o == LineOutcome(r.result)
         IN  /\ line' = words
             /\ constraints' = r.constraints
             /\ messages' = messages \cup o.printed
             /\ pc' = CASE o.next = "continue" -> "read_targets"
                        [] o.next = "return" -> "init"
                        [] o.next = "exit" -> "exited"
    /\ UNCHANGED <<file_eof, ions, maybe_hco3_index, salts, contributions, report>>
    /\ UNCHANGED search_vars

\* The third call meets the end of the file.
TargetsEof ==
    /\ pc = "read_targets"
    /\ LET o == EofOutcome(TargetProcessorAtEof)
       IN  /\ messages' = messages \cup o.printed
           /\ pc' = IF o.next = "exit" THEN "exited" ELSE "init"
    /\ file_eof' = TRUE
    /\ line' = <<>>
    /\ UNCHANGED <<ions, maybe_hco3_index, salts, contributions, constraints, report>>
    /\ UNCHANGED search_vars

\* The buffers, the initial random quantities, and the first conc and err.
InitSearch ==
    /\ pc = "init"
    /\ \E q \in [1..Len(salts) -> 0..(QOne - 1)] :
         LET r == conc(contributions, q, Zeros(Len(ions)))
         IN  /\ try_quantities' = q
             /\ best_quantities' = q
             /\ try_concentrations' = Zeros(Len(ions))
             /\ best_concentrations' = r.vec
             /\ IF r.panic
                THEN /\ pc' = "panicked"
                     /\ UNCHANGED <<best_err, divisors, i>>
                ELSE /\ best_err' = err(constraints, r.vec)
                     /\ divisors' = ErrDivisors(constraints, r.vec)
                     /\ i' = 1
                     /\ pc' = IF 1 \in LoopRange THEN "search" ELSE "report"
    /\ UNCHANGED <<try_err, logged, report>>
    /\ UNCHANGED loader_vars

\* One iteration of the search loop.
Step ==
    /\ pc = "search"
    /\ i \in LoopRange
    /\ \E samples \in [1..Len(best_quantities) -> Normal(-eps, eps)] :
         LET q == nudge(eps, best_quantities, try_quantities, samples)
             r == conc(contributions, q, try_concentrations)
             e == err(constraints, r.vec)
         IN  /\ try_quantities' = q
             /\ try_concentrations' = r.vec
             /\ IF r.panic
                THEN /\ pc' = "panicked"
                     /\ UNCHANGED <<best_quantities, best_concentrations, best_err,
                                    try_err, i, divisors, logged>>
                ELSE /\ try_err' = e
                     /\ divisors' = ErrDivisors(constraints, r.vec)
                     /\ IF Better(e, best_err)
                        THEN LET b == Accepted(e, r.vec, q)
                             IN  /\ best_err' = b.err
                                 /\ best_concentrations' = b.concentrations
                                 /\ best_quantities' = b.quantities
                        ELSE UNCHANGED <<best_err, best_concentrations,
                                         best_quantities>>
                     /\ logged' = IF i % LogEvery = 0
                                  THEN Append(logged, best_err')
                                  ELSE logged
                     /\ i' = i + 1
                     /\ pc' = IF i + 1 \in LoopRange THEN "search" ELSE "report"
    /\ UNCHANGED report
    /\ UNCHANGED loader_vars

\* Everything printed after the loop.
Report ==
    /\ pc = "report"
    /\ report' =
         <<[marks |-> [k \in 1..Len(constraints) |->
                          Mark(constraints[k], best_concentrations)],
            alkalinity |-> IF maybe_hco3_index # 0
                           THEN <<alkalinity(best_concentrations, maybe_hco3_index)>>
                           ELSE <<>>,
            additions |-> [s \in 1..Len(salts) |->
                              best_quantities[s] * water_quantity]]>>
    /\ pc' = "done"
    /\ UNCHANGED loader_vars
    /\ UNCHANGED search_vars

Next ==
    \/ OpenIonsFile
    \/ ReadError
    \/ HeaderLine
    \/ HeaderEof
    \/ SaltLine
    \/ SaltsEof
    \/ OpenTargetFile
    \/ TargetLine
    \/ TargetsEof
    \/ InitSearch
    \/ Step
    \/ Report

Spec == Init /\ [][Next]_vars

-----------------------------------------------------------------------------
(* err on its own: every constraint list over two ions, on concentration    *)
(* vectors below, at and above the targets and the guard                    *)

ErrTargets == {1, 3}

ErrRatios == {One, 2 * One}

ErrConcentrations == {-1, 0, 1, 2, 4}

ListedConstraints(targets, ratios) ==
    {<<"Exact", a, t>> : a \in 1..2, t \in targets}
    \cup {<<"Range", a, t[1], t[2]>> :
            a \in 1..2, t \in {u \in targets \X targets : u[1] <= u[2]}}
    \cup {<<"Ratio", a, b, t>> : a \in 1..2, b \in 1..2, t \in ratios}

ConstraintLists(kinds) ==
    UNION {[1..n -> kinds] : n \in 0..MaxListed}

InitErr ==
    /\ pc = "err_call"
    /\ constraints \in ConstraintLists(ListedConstraints(ErrTargets, ErrRatios))
    /\ best_concentrations \in [1..2 -> ErrConcentrations]
    /\ ions = <<"HCO3-", "Ca">>
    /\ maybe_hco3_index = 1
    /\ file_eof = TRUE
    /\ line = <<>>
    /\ messages = {}
    /\ salts = <<>>
    /\ contributions = <<>>
    /\ best_quantities = <<>>
    /\ try_quantities = <<>>
    /\ try_concentrations = Zeros(2)
    /\ best_err = 0
    /\ try_err = 0
    /\ i = 0
    /\ divisors = {}
    /\ logged = <<>>
    /\ report = <<>>

\* let best_err = err(&constraints, &best_concentrations)
EvalErr ==
    /\ pc = "err_call"
    /\ best_err' = err(constraints, best_concentrations)
    /\ divisors' = ErrDivisors(constraints, best_concentrations)
    /\ pc' = "err_done"
    /\ UNCHANGED <<best_quantities, try_quantities, best_concentrations,
                   try_concentrations, try_err, i, logged, report>>
    /\ UNCHANGED loader_vars

NextErr == EvalErr

SpecErr == InitErr /\ [][NextErr]_vars

-----------------------------------------------------------------------------
(* The report on its own: the search has ended on quantities of one step    *)
(* of two salts, each feeding one ion                                       *)

ReportTargets == {2, One}

ReportConcentrations == {0, 1, 2, 4, One, One + 1, One + RatioTolerance}

InitReport ==
    /\ pc = "report"
    /\ ions = <<"HCO3-", "Ca">>
    /\ maybe_hco3_index = 1
    /\ salts = <<"NaHCO3", "CaCl2">>
    /\ constraints \in ConstraintLists(ListedConstraints(ReportTargets, ErrRatios))
    /\ best_concentrations \in [1..2 -> ReportConcentrations]
    /\ contributions = <<<<best_concentrations[1] * QOne, 0>>,
                         <<0, best_concentrations[2] * QOne>>>>
    /\ best_quantities = <<eps, eps>>
    /\ try_quantities = best_quantities
    /\ try_concentrations = best_concentrations
    /\ best_err = err(constraints, best_concentrations)
    /\ try_err = best_err
    /\ divisors = ErrDivisors(constraints, best_concentrations)
    /\ i = MaxIter + 1
    /\ logged = [k \in 1..(MaxIter \div LogEvery) |-> best_err]
    /\ file_eof = TRUE
    /\ line = <<>>
    /\ messages = {}
    /\ report = <<>>

NextReport == Report

SpecReport == InitReport /\ [][NextReport]_vars

-----------------------------------------------------------------------------
(* The claims *)

\* The search has been initialised (conc and err have run at least once).
Searching == pc \in {"search", "report", "done"}

\* Sum over the salts s in 1..n of contribs[s][ion] * quantities[s].
RECURSIVE SaltSum(_, _, _, _)
SaltSum(contribs, quantities, ion, n) ==
    IF n = 0 THEN 0
    ELSE SaltSum(contribs, quantities, ion, n - 1)
         + MulQ(contribs[n][ion], quantities[n])

\* C1: after conc has run on the best quantities, every ion index holds the
\* sum over all salts of contributions[s][i] * quantities[s], whatever the
\* numbers of salts and of ions.
C1_ConcWritesTheSumForEveryIon ==
    (Searching \/ pc = "panicked") =>
        \A ion \in 1..Len(ions) :
            best_concentrations[ion] =
                SaltSum(contributions, best_quantities, ion, Len(salts))

\* C2: on every input the loaders accept, the run from initialisation to the
\* report never fails: no index leaves its vector.
C2_CoreNeverFails == pc # "panicked"

NonIncreasing(seq) == \A k \in 1..(Len(seq) - 1) : seq[k + 1] <= seq[k]

\* C3: an iteration replaces the best triple only when try_err < best_err; on
\* a tie or a worse trial the three stay; so best_err never grows and the
\* logged errors form a non-increasing sequence.
C3_BestReplacedOnlyWhenStrictlyBetter ==
    [][pc = "search" =>
         /\ (try_err' >= best_err =>
                UNCHANGED <<best_quantities, best_concentrations, best_err>>)
         /\ (try_err' < best_err =>
                /\ best_err' = try_err'
                /\ best_quantities' = try_quantities'
                /\ best_concentrations' = try_concentrations')
         /\ best_err' <= best_err
         /\ NonIncreasing(logged')]_vars

\* An iteration has lowered the logged error.
C3_Witness ==
    /\ Searching
    /\ \E k \in 1..(Len(logged) - 1) : logged[k + 1] < logged[k]

\* C4: the loop leaves RUNNING (pc = "search") only to DONE (pc = "report"),
\* only with iteration MaxIter, one iteration per step, also when best_err is
\* already 0; and while RUNNING the next iteration can always be taken, so
\* that DONE is reached after exactly MaxIter iterations.
C4_RunsTheWholeBudgetThenDone ==
    /\ [][pc = "search" =>
            /\ i \in 1..MaxIter
            /\ i' = i + 1
            /\ pc' = IF i = MaxIter THEN "report" ELSE "search"]_vars
    /\ [](pc = "search" => ENABLED Step)
    /\ []((pc = "report" \/ pc = "done") => i = MaxIter + 1)

\* The error is 0 before the last iteration, and the loop is still running.
C4_Witness ==
    /\ pc = "search"
    /\ i = MaxIter
    /\ constraints # <<>>
    /\ best_err = 0

\* C6: once a loader has printed an error message about a data file, the
\* search loop is never entered and no report is produced.
C6_LoaderErrorAbortsTheRun ==
    messages # {} => (~Searching /\ report = <<>>)

\* C7, the record shapes the claim names.
GoodNumber(word) == ParseF32(word).ok /\ ParseF32(word).value >= 0

KnownIon(word) == \E k \in 1..Len(ions) : ions[k] = word

ShapeExact(w) == Len(w) = 2 /\ KnownIon(w[1]) /\ GoodNumber(w[2])

ShapeRange(w) ==
    /\ Len(w) = 4
    /\ w[3] = "-"
    /\ KnownIon(w[1])
    /\ GoodNumber(w[2])
    /\ GoodNumber(w[4])
    /\ ParseF32(w[2]).value <= ParseF32(w[4]).value

ShapeFree(w) == Len(w) = 2 /\ KnownIon(w[1]) /\ w[2] = "*"

ShapeRatio(w) ==
    Len(w) = 4 /\ w[2] = ":" /\ KnownIon(w[1]) /\ KnownIon(w[3]) /\ GoodNumber(w[4])

ShapeConstraints(w) ==
    IF ShapeExact(w)
    THEN <<(<<"Exact", Position(ions, w[1]), ParseF32(w[2]).value>>)>>
    ELSE IF ShapeRange(w)
    THEN <<(<<"Range", Position(ions, w[1]), ParseF32(w[2]).value,
              ParseF32(w[4]).value>>)>>
    ELSE IF ShapeRatio(w)
    THEN <<(<<"Ratio", Position(ions, w[1]), Position(ions, w[3]),
              ParseF32(w[4]).value>>)>>
    ELSE <<>>

\* C7: the target loader accepts a record exactly when it has one of the four
\* shapes with known ions, numbers that parse and are >= 0, and min <= max; an
\* accepted record adds exactly its constraint (none for "*"); every other
\* record aborts the run.
C7_TargetLoaderAcceptsExactlyTheFourShapes ==
    [][(pc = "read_targets" /\ line' # <<>> /\ "read_error" \notin messages') =>
         LET accepted == pc' # "exited"
             wellformed == \/ ShapeExact(line')
                           \/ ShapeRange(line')
                           \/ ShapeFree(line')
                           \/ ShapeRatio(line')
         IN  /\ accepted <=> wellformed
             /\ accepted => constraints' = constraints \o ShapeConstraints(line')]_vars

\* C9: in every state of the search the quantities, best and trial, and the
\* concentrations, best and trial, have no component below 0.
C9_QuantitiesAndConcentrationsNonNegative ==
    (Searching \/ pc = "panicked") =>
        /\ \A s \in 1..Len(best_quantities) : best_quantities[s] >= 0
        /\ \A s \in 1..Len(try_quantities) : try_quantities[s] >= 0
        /\ \A k \in 1..Len(best_concentrations) : best_concentrations[k] >= 0
        /\ \A k \in 1..Len(try_concentrations) : try_concentrations[k] >= 0

\* A trial was clamped: the sample below -1 step took a quantity of one step
\* to 0, not under it, and the trial was not taken.
C9_Witness ==
    /\ pc = "search"
    /\ \E s \in 1..Len(best_quantities) :
          /\ best_quantities[s] = 1
          /\ try_quantities[s] = 0
          /\ contributions[s] # Zeros(Len(ions))

\* C10: after initialisation and after every iteration the best triple is
\* consistent: best_concentrations is conc of best_quantities and best_err is
\* err of best_concentrations.
C10_BestTripleConsistent ==
    Searching =>
        /\ best_concentrations =
              conc(contributions, best_quantities, Zeros(Len(ions))).vec
        /\ best_err = err(constraints, best_concentrations)

\* The run has ended on a best triple taken from a trial after the first log.
C10_Witness ==
    /\ pc = "done"
    /\ Len(logged) > 0
    /\ best_err < logged[1]
    /\ best_quantities = try_quantities

Min(x, y) == IF x < y THEN x ELSE y

Square(x) == x * x

\* The penalty the claim gives a constraint c on the concentrations v.
Penalty(c, v) ==
    CASE c[1] = "Exact" -> Square(v[c[2]] - c[3])
      [] c[1] = "Range" ->
            IF c[3] <= v[c[2]] /\ v[c[2]] <= c[4]
            THEN 0
            ELSE Min(Square(v[c[2]] - c[3]), Square(v[c[2]] - c[4]))
      [] c[1] = "Ratio" ->
            IF v[c[3]] < RatioGuard
            THEN RatioPenalty
            ELSE Square(DivF(v[c[2]], v[c[3]]) - c[4])

RECURSIVE PenaltySum(_, _, _)
PenaltySum(cs, v, n) ==
    IF n = 0 THEN 0 ELSE PenaltySum(cs, v, n - 1) + Penalty(cs[n], v)

\* C5: err returns the sum over the constraints of the penalty: the squared
\* difference for Exact; 0 inside the inclusive range and the squared distance
\* to the nearest bound outside it for Range; 10000 under the guard 0.01 and
\* the squared difference of the ratio otherwise for Ratio.  No division has a
\* denominator under the guard, and the result is >= 0.
C5_ErrIsTheSumOfThePenalties ==
    pc = "err_done" =>
        /\ best_err = PenaltySum(constraints, best_concentrations, Len(constraints))
        /\ \A d \in divisors : d >= RatioGuard
        /\ best_err >= 0

\* err has run on two ratio constraints, one with its denominator right at
\* the guard (divided) and one with its denominator under it (penalised).
C5_Witness ==
    /\ pc = "err_done"
    /\ divisors = {RatioGuard}
    /\ \E k \in 1..Len(constraints) :
          /\ constraints[k][1] = "Ratio"
          /\ best_concentrations[constraints[k][3]] < RatioGuard
    /\ best_err > RatioPenalty

\* The mark the claim gives a constraint c on the concentrations v: the
\* achieved ratio is the quotient, which no number is when the denominator is 0.
ClaimedMark(c, v) ==
    CASE c[1] = "Exact" -> IF Abs(v[c[2]] - c[3]) < One THEN "pass" ELSE "fail"
      [] c[1] = "Range" -> IF c[3] <= v[c[2]] /\ v[c[2]] <= c[4] THEN "pass" ELSE "fail"
      [] c[1] = "Ratio" ->
            IF v[c[3]] # 0 /\ Abs(DivF(v[c[2]], v[c[3]]) - c[4]) < RatioTolerance
            THEN "pass" ELSE "fail"

\* C8 as stated: the report marks a constraint passed exactly when
\* |achieved - target| < 1.0 (Exact), min <= achieved <= max (Range),
\* |concentration[ion_a] / concentration[ion_b] - target_ratio| < 0.1 (Ratio).
C8_MarksAsClaimed ==
    pc = "done" =>
        \A k \in 1..Len(constraints) :
            report[1].marks[k] = ClaimedMark(constraints[k], best_concentrations)

\* The mark of a ratio once the guard of the report is part of the statement.
AmendedMark(c, v) ==
    IF c[1] = "Ratio"
    THEN IF /\ v[c[3]] > RatioGuard
            /\ Abs(DivF(v[c[2]], v[c[3]]) - c[4]) < RatioTolerance
         THEN "pass" ELSE "fail"
    ELSE ClaimedMark(c, v)

\* C8 amended: as stated for Exact and Range; a Ratio is marked passed exactly
\* when concentration[ion_b] > 0.01 and |concentration[ion_a] /
\* concentration[ion_b] - target_ratio| < 0.1, and failed otherwise.
C8_MarksWithGuardedRatio ==
    pc = "done" =>
        \A k \in 1..Len(constraints) :
            report[1].marks[k] = AmendedMark(constraints[k], best_concentrations)

\* The report has marked a ratio failed whose quotient meets its target over
\* a denominator at the guard, beside an Exact constraint passed.
C8_Witness ==
    /\ pc = "done"
    /\ \E k \in 1..Len(constraints) :
          /\ constraints[k][1] = "Ratio"
          /\ best_concentrations[constraints[k][3]] = RatioGuard
          /\ DivF(best_concentrations[constraints[k][2]], RatioGuard) = constraints[k][4]
          /\ report[1].marks[k] = "fail"
    /\ \E k \in 1..Len(constraints) :
          /\ constraints[k][1] = "Exact"
          /\ report[1].marks[k] = "pass"

=============================================================================
